---------------------------- MODULE Spec2Model ----------------------------
(***************************************************************************)
(* OllProx (src/ollprox/main.py): an authenticating, caching reverse proxy *)
(* in front of an ollama server.                                           *)
(*                                                                         *)
(* Three specifications share the state below.                             *)
(*   Spec      call_model as run by the worker threads of the server: one  *)
(*             step per blocking point of the handler (the authentication, *)
(*             the cache get, the upstream POST, the cache setex and the   *)
(*             return).  verify_api_key is one step of it, and so is the   *)
(*             health handler.                                             *)
(*   SpecAuth  API_Key_Authenticator.verify_api_key alone, statement by    *)
(*             statement, called by the same threads while the key file    *)
(*             is rewritten under it.                                      *)
(*   SpecStartup  the authenticator constructed under every configuration  *)
(*             (KEY_REFRESH, salt, key file) and then called by one thread,*)
(*             also with the key it generated and logged.                  *)
(* All use the same operators for the authenticator's decisions.           *)
(***************************************************************************)
EXTENDS Naturals, Sequences, FiniteSets, TLC

VARIABLES
    now,                    \* time.time(), in whole time units
    keyFile,                \* /api_keys.txt: [readable, lines]
    already_salted,         \* self.already_salted
    VALID_API_KEYS_SALTED,  \* self.VALID_API_KEYS_SALTED
    LAST_KEY_REFRESH,       \* self.LAST_KEY_REFRESH
    KEY_REFRESH,            \* os.getenv("KEY_REFRESH")
    API_KEY_REFRESH_TIME,   \* self.API_KEY_REFRESH_TIME
    installedLoad,          \* history: the set __init__ built, then the load
                            \* result of the last step that changed the set
    vt,                     \* per thread: the frame of verify_api_key (SpecAuth)
    redis_client,           \* the module's redis_client: "None" or "client"
    cache,                  \* the redis database: cache key -> entry
    req                     \* per thread: the frame of call_model (Spec)

authVars == <<keyFile, already_salted, VALID_API_KEYS_SALTED, LAST_KEY_REFRESH,
              KEY_REFRESH, API_KEY_REFRESH_TIME, installedLoad>>
vars == <<now, keyFile, already_salted, VALID_API_KEYS_SALTED, LAST_KEY_REFRESH,
          KEY_REFRESH, API_KEY_REFRESH_TIME, installedLoad, vt, redis_client,
          cache, req>>

---------------------------------------------------------------------------
(* Bounds and configuration *)

\* The clock stops at MaxTime when the threads call verify_api_key alone,
\* and at MaxClock, one TTL, when they serve call_model and health.
MaxTime == 3

MaxClock == 1

\* The worker threads serving requests concurrently.
Threads == {"t1", "t2"}

\* os.getenv("CACHE_TTL"), in time units of the model.
CACHE_TTL == 1

\* Values of os.getenv("KEY_REFRESH") the authenticator is constructed with.
KeyRefreshEnv == {0, 1, 2, 3}

API_KEY_SALT == "salt"

\* The keys clients present and operators list in the key file.
ApiKeys == {"correct", "wrong"}

\* Header(None): no apikey header.
None == "<None>"

\* random.seed(hostname); 32 hex digits
generated_key == "0f1e2d3c4b5a69788796a5b4c3d2e1f0"

---------------------------------------------------------------------------
(* API_Key_Authenticator *)

\* hashlib.sha256(...).hexdigest(): injective, and never its own argument.
sha256(s) == "sha256(" \o s \o ")"

hash_api_key(key) == sha256(key \o "@separator@" \o API_KEY_SALT)

RefreshTimeUnclamped(configured) == configured

\* max([int(os.getenv("KEY_REFRESH", 10)), 2])
RefreshTimeOf(configured) == IF configured > 2 THEN configured ELSE 2

\* How an operator lists key k in the key file: raw, or salted and hashed
\* when the deployment sets API_KEY_SALT.
SourceLine(k) == IF already_salted THEN hash_api_key(k) ELSE k

\* The loop of get_keys_from_file over the lines of a file; an unreadable
\* file raises and leaves all_keys empty.
KeysOfFile(file, salted) ==
    IF ~file.readable THEN {}
    ELSE { IF salted THEN line ELSE hash_api_key(line) :
             line \in {l \in file.lines : l # ""} }

NeedsRefreshTimerOnly(hashed_key, current_time, last, valid, interval) ==
    current_time - last > interval

\* The condition of verify_api_key's refresh.
NeedsRefresh(hashed_key, current_time, last, valid, interval) ==
    \/ current_time - last > interval
    \/ hashed_key \notin valid

InstallMerged(newkeys, valid) == valid \cup newkeys

InstallAlways(newkeys, valid) == newkeys

InstallNever(newkeys, valid) == valid

\* if newkeys: self.VALID_API_KEYS_SALTED = newkeys
Install(newkeys, valid) == IF newkeys # {} THEN newkeys ELSE valid

InitialKeysNoFallback(file, salted) == KeysOfFile(file, salted)

\* __init__: the keys of the file if it exists and holds any, else the
\* generated key, added as it is.
InitialKeys(file, salted) ==
    LET loaded == KeysOfFile(file, salted)
    IN  IF loaded # {} THEN loaded ELSE {generated_key}

FileStates(salted) ==
    {[readable |-> FALSE, lines |-> {}]} \cup
    {[readable |-> TRUE, lines |-> L] :
        L \in SUBSET {IF salted THEN hash_api_key(k) ELSE k : k \in ApiKeys}}

\* The frame of verify_api_key.  trigger (why it refreshed), loaded (what its
\* load found: nothing, the presented key, other keys only) and raced (another
\* thread was refreshing during the call) are history; so are, between its
\* load and its assignment, after (the threads that have loaded since and not
\* assigned yet) and stale (a load made after its own has been installed).
IdleVerify ==
    [pc |-> "idle", api_key |-> None, hashed_key |-> None, newkeys |-> {},
     result |-> FALSE, trigger |-> "none", loaded |-> "no", raced |-> FALSE,
     after |-> {}, stale |-> FALSE]

InVerify(t) == vt[t].pc \in {"load", "swap", "ret"}

InRefresh(t) == vt[t].pc \in {"load", "swap"}

\* Lines 74-82: hash the key, read the clock, decide whether to refresh.
verify_enter(t, key) ==
    /\ vt[t].pc \in {"idle", "done"}
    /\ LET hashed == hash_api_key(key)
           due == now - LAST_KEY_REFRESH > API_KEY_REFRESH_TIME
           miss == hashed \notin VALID_API_KEYS_SALTED
           refresh == NeedsRefresh(hashed, now, LAST_KEY_REFRESH,
                                   VALID_API_KEYS_SALTED, API_KEY_REFRESH_TIME)
           others == \E u \in Threads \ {t} : InRefresh(u)
       IN  vt' = [u \in Threads |->
                   IF u = t
                   THEN [pc |-> IF refresh THEN "load" ELSE "ret",
                         api_key |-> key, hashed_key |-> hashed,
                         newkeys |-> {}, result |-> FALSE,
                         trigger |-> IF due /\ miss THEN "both"
                                     ELSE IF due THEN "timer"
                                     ELSE IF miss THEN "miss" ELSE "none",
                         loaded |-> "no",
                         raced |-> others,
                         after |-> {}, stale |-> FALSE]
                   ELSE IF refresh /\ InVerify(u)
                        THEN [vt[u] EXCEPT !.raced = TRUE]
                        ELSE vt[u]]
    /\ UNCHANGED <<now, authVars, redis_client, cache, req>>

\* Lines 52-67: stamp the refresh time, read the file.
get_keys_from_file(t) ==
    /\ vt[t].pc = "load"
    /\ LET all_keys == KeysOfFile(keyFile, already_salted)
       IN  /\ LAST_KEY_REFRESH' = now
           /\ vt' = [u \in Threads |->
                       IF u = t
                       THEN [vt[t] EXCEPT
                               !.pc = "swap",
                               !.newkeys = all_keys,
                               !.loaded =
                                   IF all_keys = {} THEN "empty"
                                   ELSE IF SourceLine(vt[t].api_key) \in keyFile.lines
                                   THEN "key" ELSE "other"]
                       ELSE IF vt[u].pc = "swap"
                            THEN [vt[u] EXCEPT !.after = @ \cup {t}]
                            ELSE vt[u]]
    /\ UNCHANGED <<now, keyFile, already_salted, VALID_API_KEYS_SALTED,
                   KEY_REFRESH, API_KEY_REFRESH_TIME, installedLoad,
                   redis_client, cache, req>>

\* Lines 84-85.
verify_install(t) ==
    /\ vt[t].pc = "swap"
    /\ VALID_API_KEYS_SALTED' = Install(vt[t].newkeys, VALID_API_KEYS_SALTED)
    /\ installedLoad' = IF VALID_API_KEYS_SALTED' # VALID_API_KEYS_SALTED
                        THEN vt[t].newkeys ELSE installedLoad
    /\ vt' = [u \in Threads |->
                IF u = t
                THEN [vt[t] EXCEPT !.pc = "ret", !.newkeys = {},
                                   !.after = {}, !.stale = FALSE]
                ELSE IF vt[u].pc = "swap" /\ t \in vt[u].after
                     THEN [vt[u] EXCEPT !.after = @ \ {t},
                                        !.stale = @ \/ vt[t].newkeys # {}]
                     ELSE vt[u]]
    /\ UNCHANGED <<now, keyFile, already_salted, LAST_KEY_REFRESH, KEY_REFRESH,
                   API_KEY_REFRESH_TIME, redis_client, cache, req>>

\* Line 87.
verify_return(t) ==
    /\ vt[t].pc = "ret"
    /\ vt' = [vt EXCEPT ![t].pc = "done",
                        ![t].result = (vt[t].hashed_key \in VALID_API_KEYS_SALTED)]
    /\ UNCHANGED <<now, authVars, redis_client, cache, req>>

\* The operator rewrites the key file, or it becomes unreadable.
WriteKeyFile(file) ==
    /\ file # keyFile
    /\ keyFile' = file
    /\ UNCHANGED <<now, already_salted, VALID_API_KEYS_SALTED, LAST_KEY_REFRESH,
                   KEY_REFRESH, API_KEY_REFRESH_TIME, installedLoad, vt,
                   redis_client, cache, req>>

---------------------------------------------------------------------------
(* The cache and call_model *)

\* The request bodies clients send: dicts, as the sequence of their items in
\* the order the client wrote them.
Payloads ==
    { << <<"model", "llama2">>, <<"prompt", "Hello">> >>,
      << <<"prompt", "Hello">>, <<"model", "llama2">> >>,
      << <<"model", "llama2">>, <<"prompt", "Bye">> >> }

\* What a payload says, whatever the order of its fields.
Content(request) == {request[i] : i \in DOMAIN request}

Field(request, name) ==
    (CHOOSE item \in Content(request) : item[1] = name)[2]

\* The responses ollama may give to a request; they answer its prompt.
Answers(request) ==
    IF Field(request, "prompt") = "Hello" THEN {"Hi", "Hey"} ELSE {"Ciao"}

AllAnswers == UNION {Answers(p) : p \in Payloads}

\* The order of the field names as strings.
NameBefore(a, b) == a = "model" /\ b = "prompt"

\* The items of a dict in the order json.dumps(sort_keys=True) writes them.
SortedItems(request) ==
    [i \in DOMAIN request |->
        CHOOSE item \in Content(request) :
            Cardinality({o \in Content(request) : NameBefore(o[1], item[1])})
                = i - 1]

RECURSIVE JoinItems(_)
JoinItems(items) ==
    IF items = <<>> THEN ""
    ELSE "\"" \o Head(items)[1] \o "\": \"" \o Head(items)[2] \o "\""
         \o (IF Tail(items) = <<>> THEN "" ELSE ", " \o JoinItems(Tail(items)))

\* json.dumps of a request.
json_dumps_request(items) == "{" \o JoinItems(items) \o "}"

\* hashlib.md5(...).hexdigest()
md5(s) == "md5(" \o s \o ")"

get_cache_key_constant(request) == "ollama_cache:" \o md5("")

get_cache_key_unsorted(request) ==
    "ollama_cache:" \o md5(json_dumps_request(request))

get_cache_key(request) ==
    "ollama_cache:" \o md5(json_dumps_request(SortedItems(request)))

\* json.dumps(response_data) and json.loads(cached_response)
json_dumps(response_data) == "{\"response\": \"" \o response_data \o "\"}"

json_loads(text) == CHOOSE d \in AllAnswers : json_dumps(d) = text

StoredExpired(key) == {e \in cache : e.key = key /\ e.expires < now}

\* The unexpired entries redis holds under a key.
Stored(key) == {e \in cache : e.key = key /\ e.expires > now}

SetexWrongTtl(key, ttl, value, request, body) ==
    {e \in cache : e.key # key} \cup
        {[key |-> key, value |-> value, expires |-> now + ttl + 1,
          request |-> request, content |-> Content(request), body |-> body]}

\* SETEX key ttl value.  request, content and body are history: what the
\* request that stored the entry asked and what it was answered.
Setex(key, ttl, value, request, body) ==
    {e \in cache : e.key # key} \cup
        {[key |-> key, value |-> value, expires |-> now + ttl,
          request |-> request, content |-> Content(request), body |-> body]}

ConnectedAlways == TRUE

\* `if redis_client:`
Connected == redis_client # "None"

FalsyOnlyNone(apikey) == apikey = None

\* `not apikey`
Falsy(apikey) == apikey \in {None, ""}

Headers == {None, ""} \cup ApiKeys

\* The frame of a handler: call_model, or health.  verdict, keyRead, prior,
\* getRes, reordered (the entry it hit was stored for the same fields written
\* in another order), upRes, nUp, putRes, probe (how health's GET of
\* /api/tags went), content and until (what a fresh 200 response answered,
\* and when it will be a TTL old) are history: what the request has done.
IdleRequest ==
    [handler |-> "call_model", pc |-> "idle", apikey |-> None, request |-> <<>>,
     verdict |-> "none", keyRead |-> FALSE, prior |-> None, cache_key |-> None,
     getRes |-> "none", reordered |-> FALSE, response_data |-> None,
     upRes |-> "none", nUp |-> 0, putRes |-> "none", probe |-> "none",
     status |-> 0, returned |-> None, content |-> {}, until |-> 0]

\* The handler returns or raises: its frame goes, and what stays is the
\* response and the log of what the request did.
Finish(r) ==
    [r EXCEPT !.pc = "done", !.request = <<>>, !.cache_key = None, !.prior = None]

\* History: the body of a fresh 200 response that a thread gave last, less
\* than a TTL ago, to a payload with the content of this one.
Prior(request) ==
    LET firsts == {u \in Threads :
                     /\ req[u].pc = "done" /\ req[u].status = 200
                     /\ req[u].until > now
                     /\ req[u].content = Content(request)}
    IN  IF firsts # {} THEN req[CHOOSE u \in firsts : TRUE].returned ELSE None

\* verify_api_key as one step: [valid, last, installed, result, read]
verify_api_key(api_key) ==
    LET hashed_key == hash_api_key(api_key)
        refresh == NeedsRefresh(hashed_key, now, LAST_KEY_REFRESH,
                                VALID_API_KEYS_SALTED, API_KEY_REFRESH_TIME)
        newkeys == KeysOfFile(keyFile, already_salted)
        valid == IF refresh THEN Install(newkeys, VALID_API_KEYS_SALTED)
                 ELSE VALID_API_KEYS_SALTED
    IN  [valid |-> valid,
         last |-> IF refresh THEN now ELSE LAST_KEY_REFRESH,
         installed |-> IF valid # VALID_API_KEYS_SALTED THEN newkeys
                       ELSE installedLoad,
         read |-> refresh,
         result |-> hashed_key \in valid]

AlwaysProceed(r) == [r EXCEPT !.pc = "lookup"]

\* raise HTTPException ends the handler; otherwise it goes on to the cache.
AfterAuth(r) == IF r.status = 0 THEN [r EXCEPT !.pc = "lookup"] ELSE Finish(r)

\* Lines 120-131.
call_model_auth(t, apikey, request) ==
    /\ req[t].pc \in {"idle", "done"}
    /\ IF Falsy(apikey)
       THEN /\ req' = [req EXCEPT ![t] =
                         AfterAuth([IdleRequest EXCEPT
                            !.apikey = apikey, !.request = request,
                            !.status = 401])]
            /\ UNCHANGED authVars
       ELSE LET v == verify_api_key(apikey)
                status == IF v.result THEN 0 ELSE 403
            IN  /\ VALID_API_KEYS_SALTED' = v.valid
                /\ LAST_KEY_REFRESH' = v.last
                /\ installedLoad' = v.installed
                /\ req' = [req EXCEPT ![t] =
                             AfterAuth([IdleRequest EXCEPT
                                !.apikey = apikey, !.request = request,
                                !.prior = Prior(request),
                                !.verdict = IF v.result THEN "true" ELSE "false",
                                !.keyRead = v.read,
                                !.status = status])]
                /\ UNCHANGED <<keyFile, already_salted, KEY_REFRESH,
                               API_KEY_REFRESH_TIME>>
    /\ UNCHANGED <<now, vt, redis_client, cache>>

GetFaultRaises(r) == Finish([r EXCEPT !.status = 500])

\* except Exception as e: print(...)  -- and on to the upstream call
GetFaultSwallowed(r) == [r EXCEPT !.pc = "upstream"]

\* Lines 133-142.
call_model_lookup(t, fault) ==
    /\ req[t].pc = "lookup"
    /\ LET r == [req[t] EXCEPT !.keyRead = FALSE]
       IN  IF ~Connected
           THEN /\ ~fault
                /\ req' = [req EXCEPT ![t] =
                             [r EXCEPT !.pc = "upstream", !.getRes = "skipped"]]
           ELSE LET cache_key == get_cache_key(r.request)
                    keyed == [r EXCEPT !.cache_key = cache_key]
                IN  IF fault
                    THEN req' = [req EXCEPT ![t] =
                                   GetFaultSwallowed([keyed EXCEPT !.getRes = "fault"])]
                    ELSE IF Stored(cache_key) # {}
                    THEN req' = [req EXCEPT ![t] =
                                   LET cached == CHOOSE e \in Stored(cache_key) : TRUE
                                   IN  Finish([keyed EXCEPT
                                          !.getRes = "hit", !.status = 200,
                                          !.reordered = (cached.request # r.request),
                                          !.returned = json_loads(cached.value)])]
                    ELSE req' = [req EXCEPT ![t] =
                                   [keyed EXCEPT !.pc = "upstream", !.getRes = "miss"]]
    /\ UNCHANGED <<now, authVars, vt, redis_client, cache>>

\* except requests.exceptions.RequestException: 502; except Exception: 500
UpstreamFailureStatus(outcome) ==
    IF outcome = "RequestException" THEN 502 ELSE 500

CallsWithRetry(outcome) == IF outcome = "RequestException" THEN 2 ELSE 1

\* The requests.post calls one pass through the try block makes.
UpstreamCalls(outcome) == 1

\* Lines 144-152 and 167-176.
call_model_upstream(t, outcome) ==
    /\ req[t].pc = "upstream"
    /\ outcome \in {"RequestException", "Exception"} \cup Answers(req[t].request)
    /\ IF outcome \in {"RequestException", "Exception"}
       THEN req' = [req EXCEPT ![t] =
                      Finish([req[t] EXCEPT
                                !.upRes = outcome,
                                !.nUp = @ + UpstreamCalls(outcome),
                                !.status = UpstreamFailureStatus(outcome)])]
       ELSE req' = [req EXCEPT ![t].pc = "populate",
                               ![t].prior = None,
                               ![t].upRes = "ok",
                               ![t].nUp = @ + UpstreamCalls(outcome),
                               ![t].response_data = outcome]
    /\ UNCHANGED <<now, authVars, vt, redis_client, cache>>

\* except Exception as e: print(...)  -- and on to the return
PutFaultSwallowed(r) == r

\* Lines 154-165.
call_model_populate(t, fault) ==
    /\ req[t].pc = "populate"
    /\ LET r == [req[t] EXCEPT !.status = 200,
                               !.returned = req[t].response_data,
                               !.content = Content(req[t].request),
                               !.until = now + CACHE_TTL]
           caching == Connected /\ r.cache_key # None
           stored == caching /\ ~fault
       IN  /\ fault => caching
           /\ cache' = IF stored
                       THEN Setex(r.cache_key, CACHE_TTL, json_dumps(r.response_data),
                                  r.request, r.response_data)
                       ELSE cache
           /\ req' = [req EXCEPT ![t] =
                        Finish(IF ~caching THEN [r EXCEPT !.putRes = "skipped"]
                               ELSE IF fault
                               THEN PutFaultSwallowed([r EXCEPT !.putRes = "fault"])
                               ELSE [r EXCEPT !.putRes = "ok"])]
    /\ UNCHANGED <<now, authVars, vt, redis_client>>

HealthFailureAs502(outcome) == IF outcome = "ok" THEN 200 ELSE 502

\* return {...} is 200; except Exception: raise HTTPException(503)
HealthStatus(outcome) == IF outcome = "ok" THEN 200 ELSE 503

\* Lines 179-194: GET /api/tags, raise_for_status, answer.
health(t, outcome) ==
    /\ req[t].pc \in {"idle", "done"}
    /\ req' = [req EXCEPT ![t] =
                 Finish([IdleRequest EXCEPT
                           !.handler = "health",
                           !.probe = outcome,
                           !.status = HealthStatus(outcome),
                           !.returned = IF HealthStatus(outcome) = 200
                                        THEN "healthy" ELSE None])]
    /\ UNCHANGED <<now, authVars, vt, redis_client, cache>>

\* Time passes; redis drops the entries whose TTL has run out.
Pass(limit) ==
    /\ now < limit
    /\ now' = now + 1
    /\ cache' = {e \in cache : e.expires > now'}
    /\ req' = [t \in Threads |->
                 IF req[t].until # 0 /\ req[t].until <= now'
                 THEN [req[t] EXCEPT !.until = 0] ELSE req[t]]
    /\ UNCHANGED <<authVars, vt, redis_client>>

---------------------------------------------------------------------------
(* Specifications *)

InitAuthenticator ==
    /\ already_salted \in BOOLEAN
    /\ keyFile \in FileStates(already_salted)
    /\ KEY_REFRESH \in KeyRefreshEnv
    /\ API_KEY_REFRESH_TIME = RefreshTimeOf(KEY_REFRESH)
    /\ VALID_API_KEYS_SALTED = InitialKeys(keyFile, already_salted)
    /\ installedLoad = VALID_API_KEYS_SALTED
    /\ LAST_KEY_REFRESH = 0
    /\ now = 0
    /\ vt = [t \in Threads |-> IdleVerify]

\* The deployment call_model is checked in sets KEY_REFRESH=2 and
\* API_KEY_SALT and lists the salted hash of the key "correct".
Init ==
    /\ InitAuthenticator
    /\ KEY_REFRESH = 2
    /\ already_salted
    /\ keyFile = [readable |-> TRUE, lines |-> {SourceLine("correct")}]
    /\ redis_client \in {"None", "client"}
    /\ cache = {}
    /\ req = [t \in Threads |-> IdleRequest]

NextAuth ==
    \/ \E t \in Threads, key \in ApiKeys : verify_enter(t, key)
    \/ \E t \in Threads : get_keys_from_file(t)
    \/ \E t \in Threads : verify_install(t)
    \/ \E t \in Threads : verify_return(t)
    \/ \E file \in FileStates(already_salted) : WriteKeyFile(file)
    \/ Pass(MaxTime)

\* The threads race in the deployments that set KEY_REFRESH=2.
InitAuth ==
    /\ InitAuthenticator
    /\ KEY_REFRESH = 2
    /\ redis_client = "None"
    /\ cache = {}
    /\ req = [t \in Threads |-> IdleRequest]

SpecAuth == InitAuth /\ [][NextAuth]_vars

\* The keys the caller of SpecStartup presents: the operator's, and the key
\* __init__ printed.
Presented == ApiKeys \cup {generated_key}

\* The thread that calls the authenticator in SpecStartup.
Caller == CHOOSE t \in Threads : TRUE

NextStartup ==
    \/ \E key \in Presented : verify_enter(Caller, key)
    \/ get_keys_from_file(Caller)
    \/ verify_install(Caller)
    \/ verify_return(Caller)
    \/ \E file \in FileStates(already_salted) : WriteKeyFile(file)
    \/ Pass(MaxTime)

InitStartup ==
    /\ InitAuthenticator
    /\ redis_client = "None"
    /\ cache = {}
    /\ req = [t \in Threads |-> IdleRequest]

SpecStartup == InitStartup /\ [][NextStartup]_vars

Next ==
    \/ \E t \in Threads, apikey \in Headers, request \in Payloads :
          call_model_auth(t, apikey, request)
    \/ \E t \in Threads, fault \in BOOLEAN : call_model_lookup(t, fault)
    \/ \E t \in Threads, outcome \in {"RequestException", "Exception"} \cup AllAnswers :
          call_model_upstream(t, outcome)
    \/ \E t \in Threads, fault \in BOOLEAN : call_model_populate(t, fault)
    \/ \E t \in Threads, outcome \in {"ok", "RequestException"} : health(t, outcome)
    \/ Pass(MaxClock)

Spec == Init /\ [][Next]_vars

---------------------------------------------------------------------------
(* Properties *)

\* The cache operations (get, setex) a request has attempted.
CacheOps(r) ==
    (IF r.getRes \in {"hit", "miss", "fault"} THEN 1 ELSE 0)
        + (IF r.putRes \in {"ok", "fault"} THEN 1 ELSE 0)

Authenticated(r) == r.verdict = "true"

\* C1: a request reaches the cache or the upstream only after its
\* authentication has passed; one that ends in 401 or 403 has attempted no
\* cache operation and made no upstream call.
C1_AuthBeforeIO ==
    \A t \in Threads :
        LET r == req[t]
        IN  /\ (r.pc \in {"lookup", "upstream", "populate"}
                  \/ CacheOps(r) > 0 \/ r.nUp > 0)
               => Authenticated(r) /\ r.status \notin {401, 403}
            /\ r.status \in {401, 403} =>
                  r.pc = "done" /\ CacheOps(r) = 0 /\ r.nUp = 0
                  /\ r.returned = None

\* A request was refused with 403 while the cache held a response.
C1_Witness ==
    \E t \in Threads :
        /\ req[t].pc = "done" /\ req[t].status = 403
        /\ cache # {}

\* C2: the step that authenticates a request answers 401 for an absent or
\* empty key without calling verify_api_key (trusted set and refresh time as
\* they were, key file not read), and for any other key answers 403 exactly
\* when verify_api_key returns false, that is when the key's hash is not in
\* the trusted set it leaves; so for "wrong" when only "correct" is trusted
\* and listed.
C2_AuthOutcome ==
    [][\A t \in Threads :
         ( /\ req[t].pc \in {"idle", "done"} /\ req'[t] # req[t]
           /\ req'[t].handler = "call_model" ) =>
            LET r == req'[t]
            IN  /\ r.apikey \in {None, ""} =>
                     /\ r.pc = "done" /\ r.status = 401
                     /\ r.verdict = "none" /\ ~r.keyRead
                     /\ VALID_API_KEYS_SALTED' = VALID_API_KEYS_SALTED
                     /\ LAST_KEY_REFRESH' = LAST_KEY_REFRESH
                /\ r.apikey \notin {None, ""} =>
                     /\ r.verdict # "none"
                     /\ r.status # 401
                     /\ r.status = 403 <=> r.verdict = "false"
                     /\ r.status = 403 <=>
                           hash_api_key(r.apikey) \notin VALID_API_KEYS_SALTED'
                /\ ( /\ r.apikey = "wrong"
                     /\ VALID_API_KEYS_SALTED = {hash_api_key("correct")}
                     /\ KeysOfFile(keyFile, already_salted) = {hash_api_key("correct")} )
                   => r.pc = "done" /\ r.status = 403
      ]_vars

\* One request without a key was answered 401 and one with the key "wrong"
\* 403, where only the hash of "correct" is trusted.
C2_Witness ==
    /\ VALID_API_KEYS_SALTED = {hash_api_key("correct")}
    /\ \E t \in Threads :
          req[t].status = 401 /\ req[t].apikey \in {None, ""}
    /\ \E t \in Threads :
          req[t].status = 403 /\ req[t].apikey = "wrong" /\ req[t].verdict = "false"

\* C3 as claimed: a request made less than a TTL after a fresh 200 response
\* with body b to the same payload makes no upstream call and returns 200
\* with b.
C3_Claimed ==
    [][\A t \in Threads :
         (req[t].prior # None /\ req'[t] # req[t]) =>
            /\ req'[t].nUp = 0
            /\ req'[t].pc = "done" =>
                  req'[t].status = 200 /\ req'[t].returned = req[t].prior
      ]_vars

\* C3, amended: when the cache get of an authenticated request does not
\* fault and the cache still holds the entry that a request with the same
\* payload content stored with the body b it returned, the request returns
\* 200 with b and makes no upstream call.
C3_CachedWithinTTL ==
    [][\A t \in Threads :
         ( /\ req[t].pc = "lookup"
           /\ req'[t].pc # "lookup"
           /\ req'[t].getRes \in {"hit", "miss"} ) =>
            \A e \in cache :
               (e.content = Content(req[t].request) /\ e.expires > now) =>
                  /\ req'[t].pc = "done"
                  /\ req'[t].getRes = "hit"
                  /\ req'[t].status = 200
                  /\ req'[t].returned = e.body
                  /\ req'[t].nUp = 0
      ]_vars

\* One thread returned a fresh response and stored it; the other was then
\* served the same body from the cache without an upstream call.
C3_Witness ==
    \E t, u \in Threads :
        /\ t # u
        /\ req[u].pc = "done" /\ req[u].putRes = "ok" /\ req[u].status = 200
        /\ req[t].pc = "done" /\ req[t].getRes = "hit" /\ req[t].status = 200
        /\ req[t].nUp = 0
        /\ req[t].returned = req[u].returned

\* C4 as claimed: a request that missed the cache and got b from the
\* upstream returns 200 with b, and the cache then holds b under its key
\* with the configured TTL.
C4_Claimed ==
    [][\A t \in Threads :
         (req[t].pc = "populate" /\ req[t].getRes = "miss" /\ req'[t].pc = "done") =>
            /\ req'[t].status = 200
            /\ req'[t].returned = req[t].response_data
            /\ \E e \in cache' :
                  /\ e.key = get_cache_key(req[t].request)
                  /\ json_loads(e.value) = req[t].response_data
                  /\ e.expires = now + CACHE_TTL
      ]_vars

\* C4, amended: such a request returns 200 with b, and unless its setex
\* faults, the cache then holds b under its key with the configured TTL.
C4_StoredUnlessFault ==
    [][\A t \in Threads :
         (req[t].pc = "populate" /\ req[t].getRes = "miss" /\ req'[t].pc = "done") =>
            /\ req'[t].status = 200
            /\ req'[t].returned = req[t].response_data
            /\ req'[t].putRes \in {"ok", "fault"}
            /\ req'[t].putRes = "ok" =>
                  \E e \in cache' :
                     /\ e.key = get_cache_key(req[t].request)
                     /\ json_loads(e.value) = req[t].response_data
                     /\ e.expires = now + CACHE_TTL
                     /\ \A o \in cache' : o.key = e.key => o = e
      ]_vars

\* A request missed the cache, got a response and stored it.
C4_Witness ==
    \E t \in Threads :
        /\ req[t].pc = "done" /\ req[t].getRes = "miss" /\ req[t].putRes = "ok"
        /\ req[t].status = 200
        /\ \E e \in cache : e.body = req[t].returned /\ e.expires = now + CACHE_TTL

\* C5: a refresh whose load is empty leaves a non-empty trusted set as it
\* was.
C5_EmptyLoadKeepsKeys ==
    [][\A t \in Threads :
         ( /\ vt[t].pc = "swap" /\ vt'[t].pc = "ret"
           /\ vt[t].newkeys = {}
           /\ VALID_API_KEYS_SALTED # {} ) =>
            VALID_API_KEYS_SALTED' = VALID_API_KEYS_SALTED
      ]_vars

\* A refresh loaded nothing while keys read from the file were trusted, and
\* they still are.
C5_Witness ==
    \E t \in Threads :
        /\ vt[t].pc \in {"ret", "done"} /\ vt[t].loaded = "empty"
        /\ ~vt[t].raced
        /\ hash_api_key("correct") \in VALID_API_KEYS_SALTED

\* C6: a verify of a key whose hash was not trusted, which refreshes from a
\* key file listing the key while no other thread refreshes, returns true
\* and leaves the hash trusted.
C6_NewKeyOnFirstUse ==
    [][\A t \in Threads :
         ( /\ vt[t].pc = "ret" /\ vt'[t].pc = "done"
           /\ vt[t].trigger \in {"miss", "both"}
           /\ vt[t].loaded = "key"
           /\ ~vt[t].raced ) =>
            /\ vt'[t].result
            /\ vt[t].hashed_key \in VALID_API_KEYS_SALTED'
      ]_vars

\* After the refresh interval, a verify of a key added to the file since the
\* last refresh has returned true.
C6_Witness ==
    \E t \in Threads :
        /\ vt[t].pc = "done" /\ vt[t].trigger = "both" /\ vt[t].loaded = "key"
        /\ ~vt[t].raced
        /\ vt[t].result
        /\ vt[t].hashed_key \in VALID_API_KEYS_SALTED

\* C7: a request whose cache get faulted goes on to the upstream call as
\* after a miss, and fails only if the upstream call does; a request whose
\* setex faulted returns 200 with the body the upstream gave it.
C7_CacheFaultsSwallowed ==
    \A t \in Threads :
        LET r == req[t]
        IN  /\ r.getRes = "fault" =>
                 /\ r.pc \in {"upstream", "populate", "done"}
                 /\ r.pc = "upstream" => r.nUp = 0 /\ r.status = 0
                 /\ r.pc # "upstream" => r.nUp = 1
                 /\ r.pc = "done" =>
                       \/ r.status = 200 /\ r.upRes = "ok"
                       \/ r.status = 502 /\ r.upRes = "RequestException"
                       \/ r.status = 500 /\ r.upRes = "Exception"
            /\ r.putRes = "fault" =>
                 /\ r.pc = "done" /\ r.status = 200 /\ r.upRes = "ok"
                 /\ r.returned = r.response_data
                 /\ r.returned \in AllAnswers

\* A request met a fault at its get and at its setex and returned 200.
C7_Witness ==
    \E t \in Threads :
        /\ req[t].getRes = "fault" /\ req[t].putRes = "fault"
        /\ req[t].pc = "done" /\ req[t].status = 200

\* C8: an authenticated request whose upstream call fails (connection,
\* timeout, status) ends in 502 after one upstream call and no cache write.
C8_UpstreamFailure ==
    \A t \in Threads :
        LET r == req[t]
        IN  r.upRes = "RequestException" =>
               /\ r.pc = "done" /\ r.status = 502
               /\ r.nUp = 1
               /\ r.putRes = "none"
               /\ r.getRes \in {"miss", "fault", "skipped"}
               /\ r.returned = None

\* A request missed a connected cache, then failed upstream with 502.
C8_Witness ==
    \E t \in Threads :
        /\ req[t].upRes = "RequestException" /\ req[t].status = 502
        /\ req[t].getRes = "miss"

\* C9: with no redis client after startup, no request attempts a cache
\* operation, the cache stays as it was, and every authenticated request that
\* has finished made an upstream call.
C9_NoClientNoCache ==
    redis_client = "None" =>
        /\ cache = {}
        /\ \A t \in Threads :
              /\ CacheOps(req[t]) = 0
              /\ req[t].getRes \in {"none", "skipped"}
              /\ req[t].putRes \in {"none", "skipped"}
              /\ (req[t].pc = "done" /\ Authenticated(req[t])) => req[t].nUp = 1

\* Without a client, both threads have served the same payload content from
\* the upstream.
C9_Witness ==
    /\ redis_client = "None"
    /\ \A t \in Threads :
          /\ req[t].pc = "done" /\ req[t].status = 200 /\ req[t].nUp = 1
          /\ req[t].getRes = "skipped" /\ req[t].putRes = "skipped"
          /\ req[t].returned = "Hi"

\* C10: the trusted set is at all times the set __init__ built or the whole
\* result of the one load that the last step to change it was installing.
C10_WholeLoads ==
    VALID_API_KEYS_SALTED = installedLoad

\* While one thread is about to install a different load, another that
\* refreshed is about to test membership in a set that a refresh replaced.
C10_Witness ==
    \E t, u \in Threads :
        /\ vt[t].pc = "swap" /\ vt[t].newkeys # {}
        /\ vt[t].newkeys # VALID_API_KEYS_SALTED
        /\ vt[u].pc = "ret" /\ vt[u].raced
        /\ VALID_API_KEYS_SALTED # {generated_key}
        /\ VALID_API_KEYS_SALTED # InitialKeys(keyFile, already_salted)

\* C12 as claimed: payloads with the same fields and values in any order
\* derive the same cache key; and a request made after a response to a
\* payload with the same content, in whatever order, was returned, which at
\* its get finds that response in the cache, unexpired, is served from the
\* cache without an upstream call.
C12_Claimed ==
    [][\A t \in Threads :
         (req[t].pc = "lookup" /\ req'[t].pc # "lookup") =>
            /\ \A p1 \in Payloads :
                  Content(p1) = Content(req[t].request) =>
                     get_cache_key(p1) = get_cache_key(req[t].request)
            /\ \A e \in cache :
                  ( /\ Content(e.request) = Content(req[t].request)
                    /\ e.key = get_cache_key(e.request)
                    /\ e.body = req[t].prior
                    /\ e.expires > now ) =>
                     /\ req'[t].pc = "done"
                     /\ req'[t].getRes = "hit"
                     /\ req'[t].nUp = 0
      ]_vars

\* C12, amended: the same, for a request whose cache get does not fault.
C12_SameKeyAnyOrder ==
    [][\A t \in Threads :
         (req[t].pc = "lookup" /\ req'[t].pc # "lookup") =>
            /\ \A p1 \in Payloads :
                  Content(p1) = Content(req[t].request) =>
                     get_cache_key(p1) = get_cache_key(req[t].request)
            /\ req'[t].getRes \in {"hit", "miss"} =>
                  \A e \in cache :
                     ( /\ Content(e.request) = Content(req[t].request)
                       /\ e.key = get_cache_key(e.request)
                       /\ e.body = req[t].prior
                       /\ e.expires > now ) =>
                        /\ req'[t].pc = "done"
                        /\ req'[t].getRes = "hit"
                        /\ req'[t].status = 200
                        /\ req'[t].returned = json_loads(e.value)
                        /\ req'[t].nUp = 0
      ]_vars

\* A request was served, without an upstream call, the entry stored for a
\* payload that listed the same fields in another order.
C12_Witness ==
    \E t \in Threads :
        /\ req[t].pc = "done" /\ req[t].getRes = "hit" /\ req[t].reordered
        /\ req[t].status = 200 /\ req[t].nUp = 0
        /\ \E e \in cache : json_loads(e.value) = req[t].returned

\* C14: health consults no API key; it answers 200 exactly when its GET of
\* /api/tags succeeds and 503 otherwise; and its step leaves the cache, the
\* trusted set and the refresh time as they were.
C14_HealthProbe ==
    [][\A t \in Threads :
         (req'[t] # req[t] /\ req'[t].handler = "health") =>
            /\ req'[t].pc = "done"
            /\ req'[t].verdict = "none" /\ ~req'[t].keyRead
            /\ req'[t].status \in {200, 503}
            /\ req'[t].status = 200 <=> req'[t].probe = "ok"
            /\ req'[t].getRes = "none" /\ req'[t].putRes = "none"
            /\ cache' = cache
            /\ VALID_API_KEYS_SALTED' = VALID_API_KEYS_SALTED
            /\ LAST_KEY_REFRESH' = LAST_KEY_REFRESH
      ]_vars

\* While the cache held a response, one health check was answered 200 and
\* another 503.
C14_Witness ==
    /\ cache # {}
    /\ \E t, u \in Threads :
          /\ req[t].handler = "health" /\ req[t].status = 200
          /\ req[t].probe = "ok"
          /\ req[u].handler = "health" /\ req[u].status = 503
          /\ req[u].probe # "ok"

\* C20: every cache entry sits under the key of the payload of the request
\* that stored it and holds a body the upstream gave for that payload; the
\* cache gains or changes an entry only in the setex of an authenticated
\* request whose upstream call succeeded; and every 200 body call_model
\* returns is a body the upstream gives for the payload of the request.
C20_CacheIntegrity ==
    /\ [](\A e \in cache :
            /\ e.key = get_cache_key(e.request)
            /\ e.value = json_dumps(e.body)
            /\ e.body \in Answers(e.request))
    /\ [][/\ ~(cache' \subseteq cache) =>
              \E t \in Threads :
                 /\ req[t].pc = "populate" /\ req'[t].pc = "done"
                 /\ Authenticated(req[t]) /\ req[t].upRes = "ok"
                 /\ req'[t].status = 200
                 /\ cache' \ cache =
                       {[key |-> get_cache_key(req[t].request),
                         value |-> json_dumps(req[t].response_data),
                         expires |-> now + CACHE_TTL,
                         request |-> req[t].request,
                         content |-> Content(req[t].request),
                         body |-> req[t].response_data]}
          /\ \A t \in Threads :
                ( /\ req[t].pc \in {"lookup", "populate"} /\ req'[t].pc = "done"
                  /\ req'[t].status = 200 ) =>
                   req'[t].returned \in Answers(req[t].request)
        ]_vars

\* With the responses to two payloads of different content in the cache,
\* under different keys, a request was served one of them from the cache.
C20_Witness ==
    /\ \E e, o \in cache : e.key # o.key /\ e.content # o.content
    /\ \E t \in Threads :
          /\ req[t].pc = "done" /\ req[t].getRes = "hit"
          /\ req[t].returned = "Ciao"

\* C11 as claimed: during verify the refresh time changes only in a refresh
\* whose load of the key file is non-empty; a refresh whose load is empty
\* (file empty, missing or unreadable) leaves it as it was.
C11_Claimed ==
    [][/\ LAST_KEY_REFRESH' # LAST_KEY_REFRESH =>
             \E t \in Threads :
                /\ vt[t].pc = "load" /\ vt'[t].pc = "swap"
                /\ vt'[t].newkeys # {}
       /\ \A t \in Threads :
             ( /\ vt[t].pc = "load" /\ vt'[t].pc = "swap"
               /\ KeysOfFile(keyFile, already_salted) = {} ) =>
                LAST_KEY_REFRESH' = LAST_KEY_REFRESH
      ]_vars

\* C15: verify goes on to read the key file exactly when more than the
\* refresh interval has passed since the last refresh or the hash of the
\* presented key is not trusted; only a verify that decided so reads the
\* file; the steps of a verify other than its refresh leave the trusted set
\* and the refresh time as they were; and verify returns whether the hash is
\* in the trusted set as it stands when it returns.
C15_RefreshCondition ==
    [][\A t \in Threads :
         /\ (vt[t].pc \in {"idle", "done"} /\ vt'[t].pc \in {"load", "ret"}) =>
               /\ vt'[t].pc = "load" <=>
                     \/ now - LAST_KEY_REFRESH > API_KEY_REFRESH_TIME
                     \/ hash_api_key(vt'[t].api_key) \notin VALID_API_KEYS_SALTED
               /\ VALID_API_KEYS_SALTED' = VALID_API_KEYS_SALTED
               /\ LAST_KEY_REFRESH' = LAST_KEY_REFRESH
         /\ (vt[t].pc # "swap" /\ vt'[t].pc = "swap") => vt[t].pc = "load"
         /\ (vt[t].pc = "ret" /\ vt'[t].pc = "done") =>
               /\ vt'[t].result <=>
                     hash_api_key(vt[t].api_key) \in VALID_API_KEYS_SALTED'
               /\ VALID_API_KEYS_SALTED' = VALID_API_KEYS_SALTED
               /\ LAST_KEY_REFRESH' = LAST_KEY_REFRESH
               /\ vt[t].trigger = "none" <=> vt[t].loaded = "no"
      ]_vars

\* Within the interval, a verify of a trusted key has returned true without
\* reading the key file, although the file no longer lists the key.
C15_Witness ==
    \E t \in Threads :
        /\ vt[t].pc = "done" /\ vt[t].trigger = "none" /\ vt[t].loaded = "no"
        /\ vt[t].result
        /\ now > LAST_KEY_REFRESH
        /\ keyFile.readable /\ keyFile.lines # {}
        /\ SourceLine(vt[t].api_key) \notin keyFile.lines

\* C18: a verify of a key that starts more than the refresh interval after
\* the last refresh and loads a non-empty key file that does not list the
\* key, while no other thread refreshes, returns false and leaves the key's
\* hash out of the trusted set.
C18_RemovedKeyRefused ==
    [][\A t \in Threads :
         ( /\ vt[t].pc = "ret" /\ vt'[t].pc = "done"
           /\ vt[t].trigger \in {"timer", "both"}
           /\ vt[t].loaded = "other"
           /\ ~vt[t].raced ) =>
            /\ ~vt'[t].result
            /\ vt[t].hashed_key \notin VALID_API_KEYS_SALTED'
      ]_vars

\* A key that was trusted when its verify started, after the interval, has
\* been refused: the file, still listing another key, had dropped it.
C18_Witness ==
    \E t \in Threads :
        /\ vt[t].pc = "done" /\ vt[t].trigger = "timer" /\ vt[t].loaded = "other"
        /\ ~vt[t].raced
        /\ ~vt[t].result
        /\ vt[t].hashed_key \notin VALID_API_KEYS_SALTED
        /\ VALID_API_KEYS_SALTED # {}

\* C19: the trusted set is never empty.
C19_TrustedSetNonEmpty ==
    VALID_API_KEYS_SALTED # {}

\* Started without keys and refreshed from an unreadable file, the trusted
\* set still holds the generated key.
C19_Witness ==
    /\ VALID_API_KEYS_SALTED = {generated_key}
    /\ ~keyFile.readable
    /\ \E t \in Threads : vt[t].pc = "done" /\ vt[t].loaded = "empty"

\* C16 as claimed: a refresh never replaces the trusted set by the result of
\* a load made before the load whose result has been installed since; and a
\* verify of a key whose own load found the key in the file returns true,
\* whatever the other threads do.
C16_Claimed ==
    [][\A t \in Threads :
         /\ (vt[t].pc = "swap" /\ vt'[t].pc = "ret" /\ vt[t].stale) =>
               VALID_API_KEYS_SALTED' = VALID_API_KEYS_SALTED
         /\ (vt[t].pc = "ret" /\ vt'[t].pc = "done" /\ vt[t].loaded = "key") =>
               vt'[t].result
      ]_vars

\* C13: the refresh interval is the larger of the configured KEY_REFRESH and
\* 2, so never below 2, and it is the interval verify compares the time
\* since the last refresh with.
C13_IntervalClamped ==
    /\ [](/\ API_KEY_REFRESH_TIME >= 2
          /\ API_KEY_REFRESH_TIME =
                IF KEY_REFRESH >= 2 THEN KEY_REFRESH ELSE 2)
    /\ [][\A t \in Threads :
            (vt[t].pc \in {"idle", "done"} /\ vt'[t].pc \in {"load", "ret"}) =>
               ( vt'[t].trigger \in {"timer", "both"} <=>
                   now - LAST_KEY_REFRESH >
                      (IF KEY_REFRESH >= 2 THEN KEY_REFRESH ELSE 2) )
        ]_vars

\* Configured with KEY_REFRESH=0, verify has found a trusted key two time
\* units after the last refresh and not refreshed.
C13_Witness ==
    /\ KEY_REFRESH = 0
    /\ API_KEY_REFRESH_TIME = 2
    /\ now - LAST_KEY_REFRESH = 2
    /\ \E t \in Threads : vt[t].pc = "ret" /\ vt[t].trigger = "none"

\* C17 as claimed: started on an empty or missing key file, the trusted set
\* is exactly the generated key; and while the trusted set is still that
\* (no load has found a key), verify of the generated key returns true.
C17_Claimed ==
    /\ KeysOfFile(keyFile, already_salted) = {} =>
          VALID_API_KEYS_SALTED = {generated_key}
    /\ [][\A t \in Threads :
            ( /\ vt[t].pc = "ret" /\ vt'[t].pc = "done"
              /\ vt[t].api_key = generated_key
              /\ vt[t].loaded \in {"no", "empty"}
              /\ VALID_API_KEYS_SALTED = {generated_key} ) =>
               vt'[t].result
        ]_vars

=============================================================================
